---- MODULE Spec2Model ----
(***************************************************************************)
(* Model of hw/arm/virt-cortex-m.c: the "virt_cortex_m" machine.           *)
(*                                                                         *)
(* The board parameters are int64_t, the requested RAM size is a 64-bit    *)
(* ram_addr_t, and virt_cortex_m_init narrows them to int / uint32_t.      *)
(* TLC's integers are 32 bits wide, so a 64-bit value is kept as its bit   *)
(* pattern: four 16-bit limbs, least significant first.  Mathematical      *)
(* (unbounded) naturals used to state the claims are limb sequences of any *)
(* length.                                                                 *)
(***************************************************************************)
EXTENDS Integers, Sequences, FiniteSets, TLC

\* ------------------------------------------------------------------------
\* 64-bit arithmetic on limbs
\* ------------------------------------------------------------------------

\* one limb holds 16 bits
W16 == 2^16

\* sign bit of a limb
SignLimb == 2^15

\* the bit pattern of a small non-negative integer n (n < 2^31) as an int64_t
I64(n) == <<n % W16, n \div W16, 0, 0>>

\* int64_t: is the value negative (two's complement sign bit)
IsNeg(x) == x[4] >= SignLimb

IsZero(x) == \A i \in 1..Len(x) : x[i] = 0

RECURSIVE MulCarry(_, _, _)
\* limb sequence x times the small constant c, plus carry: one limb longer than x
MulCarry(x, c, carry) ==
    IF x = <<>> THEN <<carry>>
    ELSE LET t == Head(x) * c + carry
         IN  <<t % W16>> \o MulCarry(Tail(x), c, t \div W16)

\* exact product of the natural x by c
MulNat(x, c) == MulCarry(x, c, 0)

RECURSIVE AddCarry(_, _, _)
\* sum of two limb sequences of equal length, one limb longer
AddCarry(x, y, carry) ==
    IF x = <<>> THEN <<carry>>
    ELSE LET t == Head(x) + Head(y) + carry
         IN  <<t % W16>> \o AddCarry(Tail(x), Tail(y), t \div W16)

AddNat(x, y) == AddCarry(x, y, 0)

\* the low 64 bits of a limb sequence
Low64(x) == SubSeq(x, 1, 4)

\* a 64-bit pattern widened to n limbs as an unsigned value
Widen(x, n) == [i \in 1..n |-> IF i <= Len(x) THEN x[i] ELSE 0]

\* two's complement negation of a 64-bit pattern
Neg64(x) == Low64(AddCarry([i \in 1..4 |-> W16 - 1 - x[i]], I64(0), 1))

\* magnitude of an int64_t as an unsigned 64-bit pattern
Abs64(x) == IF IsNeg(x) THEN Neg64(x) ELSE x

RECURSIVE LtNat(_, _)
\* x < y for limb sequences of equal length
LtNat(x, y) ==
    IF x = <<>> THEN FALSE
    ELSE LET n == Len(x)
         IN  IF x[n] # y[n] THEN x[n] < y[n]
             ELSE LtNat(SubSeq(x, 1, n - 1), SubSeq(y, 1, n - 1))

\* a natural below 2^31, as a TLC integer
Fits31(x) == x[2] < SignLimb /\ \A i \in 3..Len(x) : x[i] = 0
ToNat(x) == x[1] + x[2] * W16

\* int64_t * small positive constant: does the signed product leave int64_t
MulOverflows(x, c) ==
    LET p == MulNat(Abs64(x), c)
    IN  \/ p[5] # 0
        \/ /\ p[4] >= SignLimb
           /\ ~(IsNeg(x) /\ p[4] = SignLimb /\ p[1] = 0 /\ p[2] = 0 /\ p[3] = 0)

\* int64_t * small positive constant, low 64 bits (the wrapped product)
MulWrap(x, c) == Low64(MulNat(x, c))

\* (int)x for a 64-bit x, then widened back to the 64-bit parameter type:
\* the low 32 bits, sign-extended
IntOf(x) ==
    LET s == IF x[2] >= SignLimb THEN W16 - 1 ELSE 0
    IN  <<x[1], x[2], s, s>>

\* (uint32_t)x for a 64-bit x: the low 32 bits, zero-extended
Uint32Of(x) == <<x[1], x[2], 0, 0>>

\* ------------------------------------------------------------------------
\* Program constants and inputs
\* ------------------------------------------------------------------------

\* m->flash_size_kb = 1 * 1024
DefaultFlashKb == 1024
\* m->freq_mhz = 50
DefaultFreqMhz == 50
\* m->num_irq = 64
DefaultNumIrq == 64
\* memory_region_add_subregion(system_memory, 0, flash)
FLASH_BASE == 0
\* memory_region_add_subregion(system_memory, 0x20000000, sram)
SRAM_BASE == 536870912
\* NANOSECONDS_PER_SECOND (1000000000LL)
NANOSECONDS_PER_SECOND == 1000000000

\* int64_t values the configuration layer hands to the set accessors
\* (limbs, least significant first)
FlashKbValues ==
    { I64(64), I64(1024),
      <<W16 - 1, W16 - 1, W16 - 1, W16 - 1>>,   \* -1
      I64(1048576),          \* 1 GiB of flash: reaches past 0x20000000
      I64(4194368),          \* 2^22 + 64: the byte count needs more than 32 bits
      <<0, 0, 0, 32>> }      \* 2^53: the byte count needs more than 63 bits

FreqMhzValues ==
    { I64(0), I64(1), I64(25), I64(50),
      <<0, 0, 0, 1024>>,     \* 2^58
      <<1, 0, 0, 1024>> }    \* 2^58 + 1

NumIrqValues ==
    { I64(32), I64(64),
      <<32, 0, 1, 0>> }      \* 2^32 + 32

\* number of 16 KiB steps of requested RAM the model explores
MaxRamUnits == 4

\* MachineState.ram_size values the platform requests: 16 KiB .. 64 KiB in
\* steps of 16 KiB, and one size that needs more than 32 bits
RamSizeValues ==
    { I64(2^14 * k) : k \in 1..MaxRamUnits } \cup
    { <<0, 1, 1, 0>> }       \* 2^32 + 65536

\* MachineState.cpu_type values
CpuTypes == {"cortex-m3-arm-cpu", "cortex-m4-arm-cpu"}

\* the three registered property names
PropNames == {"flash_kb", "freq_mhz", "num_irq"}

PropValues(name) ==
    CASE name = "flash_kb" -> FlashKbValues
      [] name = "freq_mhz" -> FreqMhzValues
      [] name = "num_irq"  -> NumIrqValues

\* ------------------------------------------------------------------------
\* State
\* ------------------------------------------------------------------------

VARIABLES
    m,                  \* VirtCortexMMachineState: flash_size_kb, freq_mhz, num_irq
    ms,                 \* MachineState fields read by init: ram_size, cpu_type
    pc,                 \* position in virt_cortex_m_init, or outside it
    flash_size,         \* local 'int flash_size'  (sign-extended to 64 bits)
    sram_size,          \* local 'int sram_size'   (sign-extended to 64 bits)
    flash,              \* MemoryRegion *flash
    sram,               \* MemoryRegion *sram
    nvic,               \* DeviceState *nvic
    system_clock_scale, \* the process-wide int system_clock_scale
    loader,             \* the call of armv7m_load_kernel
    log,                \* the externally visible steps taken so far, in order
    last,               \* the previous accessor call, if the previous step was one
    overridden          \* has a set accessor run since instance creation

vars == <<m, ms, pc, flash_size, sram_size, flash, sram, nvic,
          system_clock_scale, loader, log, last, overridden>>

NoRegion == [state |-> "none", size |-> I64(0), base |-> I64(0), rom |-> FALSE]
NoNvic   == [created |-> FALSE, num_irq |-> I64(0), cpu_type |-> "",
             bitband |-> FALSE, memory |-> "", realized |-> FALSE]
NoLoader == [invoked |-> FALSE, mem_size |-> I64(0)]
NoCall   == [op |-> "none", name |-> "", val |-> I64(0)]

\* instance_init with the frequency and interrupt-count defaults exchanged
instance_init_swapped ==
    [flash_size_kb |-> I64(1 * DefaultFlashKb),
     freq_mhz      |-> I64(DefaultNumIrq),
     num_irq       |-> I64(DefaultFreqMhz)]

\* the fields virt_cortex_m_instance_init stores
virt_cortex_m_instance_init ==
    [flash_size_kb |-> I64(1 * DefaultFlashKb),
     freq_mhz      |-> I64(DefaultFreqMhz),
     num_irq       |-> I64(DefaultNumIrq)]

Init ==
    /\ m = virt_cortex_m_instance_init
    /\ ms \in [ram_size : RamSizeValues, cpu_type : CpuTypes]
    /\ pc = "idle"
    /\ flash_size = I64(0)
    /\ sram_size = I64(0)
    /\ flash = NoRegion
    /\ sram = NoRegion
    /\ nvic = NoNvic
    /\ system_clock_scale = 0
    /\ loader = NoLoader
    /\ log = <<>>
    /\ last = NoCall
    /\ overridden = FALSE

\* ------------------------------------------------------------------------
\* Property accessors (lines 72-106) and their registration (lines 117-148)
\* ------------------------------------------------------------------------

\* the accessors run between machine operations, never inside init
Callable == pc \in {"idle", "done", "returned"}

\* what no accessor touches: everything but the parameter store
AccessorFrame ==
    UNCHANGED <<ms, pc, flash_size, sram_size, flash, sram, nvic,
                system_clock_scale, loader, log>>

\* visit_type_int64(v, name, &m->flash_size_kb, errp) with the input visitor
\* of a property write stores the visited value v
flash_size_set(name, v) ==
    /\ m' = [m EXCEPT !.flash_size_kb = v]
    /\ last' = [op |-> "set", name |-> name, val |-> v]
    /\ overridden' = TRUE
    /\ AccessorFrame

\* visit_type_int64(v, name, &m->flash_size_kb, errp) with the output visitor
\* of a property read hands out the stored value
flash_size_get(name) ==
    /\ m' = m
    /\ last' = [op |-> "get", name |-> name, val |-> m.flash_size_kb]
    /\ overridden' = overridden
    /\ AccessorFrame

\* a frequency setter that also re-publishes the clock scale
freq_mhz_set_republish(name, v) ==
    /\ m' = [m EXCEPT !.freq_mhz = v]
    /\ last' = [op |-> "set", name |-> name, val |-> v]
    /\ overridden' = TRUE
    /\ system_clock_scale' = 0
    /\ UNCHANGED <<ms, pc, flash_size, sram_size, flash, sram, nvic, loader, log>>

freq_mhz_set(name, v) ==
    /\ m' = [m EXCEPT !.freq_mhz = v]
    /\ last' = [op |-> "set", name |-> name, val |-> v]
    /\ overridden' = TRUE
    /\ AccessorFrame

\* a frequency getter pasted from num_irq_get with the field left unchanged
freq_mhz_get_wrong_field(name) ==
    /\ m' = m
    /\ last' = [op |-> "get", name |-> name, val |-> m.num_irq]
    /\ overridden' = overridden
    /\ AccessorFrame

freq_mhz_get(name) ==
    /\ m' = m
    /\ last' = [op |-> "get", name |-> name, val |-> m.freq_mhz]
    /\ overridden' = overridden
    /\ AccessorFrame

num_irq_set(name, v) ==
    /\ m' = [m EXCEPT !.num_irq = v]
    /\ last' = [op |-> "set", name |-> name, val |-> v]
    /\ overridden' = TRUE
    /\ AccessorFrame

num_irq_get(name) ==
    /\ m' = m
    /\ last' = [op |-> "get", name |-> name, val |-> m.num_irq]
    /\ overridden' = overridden
    /\ AccessorFrame

\* object_class_property_add: the setter registered under each name
PropertySetter(name, v) ==
    CASE name = "flash_kb" -> flash_size_set(name, v)
      [] name = "freq_mhz" -> freq_mhz_set(name, v)
      [] name = "num_irq"  -> num_irq_set(name, v)

\* object_class_property_add: the getter registered under each name
PropertyGetter(name) ==
    CASE name = "flash_kb" -> flash_size_get(name)
      [] name = "freq_mhz" -> freq_mhz_get(name)
      [] name = "num_irq"  -> num_irq_get(name)

\* the configuration layer sets property 'name' to an int64 value
SetProperty ==
    /\ Callable
    /\ \E name \in PropNames : \E v \in PropValues(name) : PropertySetter(name, v)

\* the configuration layer reads property 'name'
GetProperty ==
    /\ Callable
    /\ \E name \in PropNames : PropertyGetter(name)

\* ------------------------------------------------------------------------
\* virt_cortex_m_init (lines 37-70), one action per statement group
\* ------------------------------------------------------------------------

\* the signed product overflowed and the build trapped
Trap == <<>>

\* int64_t x * c: the product, or on signed overflow (undefined behaviour)
\* either the wrapped product or a trap
MulOutcomes(x, c) ==
    IF MulOverflows(x, c) THEN {MulWrap(x, c), Trap} ELSE {MulWrap(x, c)}

\* outcomes of m->freq_mhz * 1000 * 1000, evaluated left to right in int64_t
DivisorOutcomes(f) ==
    UNION { IF p = Trap THEN {Trap} ELSE MulOutcomes(p, 1000)
            : p \in MulOutcomes(f, 1000) }

\* NANOSECONDS_PER_SECOND / d in int64_t, truncating toward zero; d # 0
Quotient(d) ==
    LET a == Abs64(d)
        q == IF Fits31(a) /\ ToNat(a) <= NANOSECONDS_PER_SECOND
             THEN NANOSECONDS_PER_SECOND \div ToNat(a)
             ELSE 0
    IN  IF IsNeg(d) THEN 0 - q ELSE q

\* outcomes of the division: dividing by zero is undefined behaviour, which
\* traps (x86 #DE) or yields 0 (AArch64 sdiv)
DivValues(d) == IF IsZero(d) THEN {0} ELSE {Quotient(d)}
DivMayTrap(d) == IsZero(d)

InitFrame == UNCHANGED <<m, ms, overridden>>

\* lines 39-46: the locals; last is cleared by every step that is no accessor
init_locals ==
    /\ pc = "idle"
    /\ \E p \in MulOutcomes(m.flash_size_kb, 1024) :
          IF p = Trap
          THEN /\ pc' = "crashed"
               /\ UNCHANGED <<flash_size, sram_size>>
          ELSE /\ pc' = "flash_init"
               /\ flash_size' = IntOf(p)
               /\ sram_size' = IntOf(ms.ram_size)
    /\ last' = NoCall
    /\ InitFrame
    /\ UNCHANGED <<flash, sram, nvic, system_clock_scale, loader, log>>

\* memory_region_init_rom / memory_region_init_ram take the size as uint64_t
\* and report a size they cannot back through errp; a non-positive size is
\* such a size
RegionSizeOk(size) == ~IsNeg(size) /\ ~IsZero(size)

\* error_fatal: the process exits inside the failing call
Exit ==
    /\ pc' = "exited"
    /\ UNCHANGED <<flash_size, sram_size, flash, sram, nvic,
                   system_clock_scale, loader, log>>

\* lines 48-49: memory_region_init_rom(flash, ..., flash_size, &error_fatal)
init_flash_rom ==
    /\ pc = "flash_init"
    /\ \/ /\ RegionSizeOk(flash_size)
          /\ flash' = [state |-> "created", size |-> flash_size,
                       base |-> I64(0), rom |-> TRUE]
          /\ log' = Append(log, "flash_created")
          /\ pc' = "flash_map"
          /\ UNCHANGED <<flash_size, sram_size, sram, nvic,
                         system_clock_scale, loader>>
       \/ Exit
    /\ last' = NoCall
    /\ InitFrame

\* line 50: memory_region_add_subregion(system_memory, 0, flash)
init_flash_map ==
    /\ pc = "flash_map"
    /\ flash' = [flash EXCEPT !.state = "mapped", !.base = I64(FLASH_BASE)]
    /\ log' = Append(log, "flash_mapped")
    /\ pc' = "sram_init"
    /\ last' = NoCall
    /\ InitFrame
    /\ UNCHANGED <<flash_size, sram_size, sram, nvic, system_clock_scale, loader>>

\* lines 52-53: memory_region_init_ram(sram, ..., sram_size, &error_fatal)
init_sram_ram ==
    /\ pc = "sram_init"
    /\ \/ /\ RegionSizeOk(sram_size)
          /\ sram' = [state |-> "created", size |-> sram_size,
                      base |-> I64(0), rom |-> FALSE]
          /\ log' = Append(log, "sram_created")
          /\ pc' = "sram_map"
          /\ UNCHANGED <<flash_size, sram_size, flash, nvic,
                         system_clock_scale, loader>>
       \/ Exit
    /\ last' = NoCall
    /\ InitFrame

\* line 54: memory_region_add_subregion(system_memory, 0x20000000, sram)
init_sram_map ==
    /\ pc = "sram_map"
    /\ sram' = [sram EXCEPT !.state = "mapped", !.base = I64(SRAM_BASE)]
    /\ log' = Append(log, "sram_mapped")
    /\ pc' = "nvic_new"
    /\ last' = NoCall
    /\ InitFrame
    /\ UNCHANGED <<flash_size, sram_size, flash, nvic, system_clock_scale, loader>>

\* line 56: qdev_new(TYPE_ARMV7M)
init_nvic_new ==
    /\ pc = "nvic_new"
    /\ nvic' = [NoNvic EXCEPT !.created = TRUE]
    /\ log' = Append(log, "nvic_created")
    /\ pc' = "nvic_props"
    /\ last' = NoCall
    /\ InitFrame
    /\ UNCHANGED <<flash_size, sram_size, flash, sram, system_clock_scale, loader>>

\* lines 58-60: num-irq (through uint32_t), cpu-type, enable-bitband
init_nvic_props ==
    /\ pc = "nvic_props"
    /\ nvic' = [nvic EXCEPT !.num_irq = Uint32Of(m.num_irq),
                            !.cpu_type = ms.cpu_type,
                            !.bitband = TRUE]
    /\ log' = Append(log, "nvic_configured")
    /\ pc' = "nvic_link"
    /\ last' = NoCall
    /\ InitFrame
    /\ UNCHANGED <<flash_size, sram_size, flash, sram, system_clock_scale, loader>>

\* lines 61-62: the "memory" link to get_system_memory()
init_nvic_link ==
    /\ pc = "nvic_link"
    /\ nvic' = [nvic EXCEPT !.memory = "system_memory"]
    /\ log' = Append(log, "nvic_linked")
    /\ pc' = "realize"
    /\ last' = NoCall
    /\ InitFrame
    /\ UNCHANGED <<flash_size, sram_size, flash, sram, system_clock_scale, loader>>

\* line 64, sysbus_realize succeeds
init_realize_ok ==
    /\ pc = "realize"
    /\ nvic' = [nvic EXCEPT !.realized = TRUE]
    /\ log' = Append(log, "nvic_realized")
    /\ pc' = "clock"
    /\ last' = NoCall
    /\ InitFrame
    /\ UNCHANGED <<flash_size, sram_size, flash, sram, system_clock_scale, loader>>

\* a failed realization that falls through to line 68 (no return)
init_realize_fail_fallthrough ==
    /\ pc = "realize"
    /\ pc' = "clock"
    /\ log' = Append(log, "nvic_realize_failed")
    /\ last' = NoCall
    /\ InitFrame
    /\ UNCHANGED <<flash_size, sram_size, flash, sram, nvic,
                   system_clock_scale, loader>>

\* lines 64-66, sysbus_realize fails: error_fatal ends the process inside the
\* call, and a call that came back false takes the return of line 65
init_realize_fail ==
    /\ pc = "realize"
    /\ pc' \in {"exited", "returned"}
    /\ log' = Append(log, "nvic_realize_failed")
    /\ last' = NoCall
    /\ InitFrame
    /\ UNCHANGED <<flash_size, sram_size, flash, sram, nvic,
                   system_clock_scale, loader>>

\* line 68: system_clock_scale = NANOSECONDS_PER_SECOND / (freq_mhz * 1000 * 1000)
init_clock_scale ==
    /\ pc = "clock"
    /\ \E d \in DivisorOutcomes(m.freq_mhz) :
          \/ /\ d # Trap
             /\ \E q \in DivValues(d) : system_clock_scale' = q
             /\ log' = Append(log, "clock_published")
             /\ pc' = "load"
          \/ /\ d = Trap \/ DivMayTrap(d)
             /\ pc' = "crashed"
             /\ UNCHANGED <<system_clock_scale, log>>
    /\ last' = NoCall
    /\ InitFrame
    /\ UNCHANGED <<flash_size, sram_size, flash, sram, nvic, loader>>

\* lines 68 and 69 exchanged: the loader runs before the clock scale is written
init_load_kernel_first ==
    /\ pc = "clock"
    /\ loader' = [invoked |-> TRUE, mem_size |-> flash_size]
    /\ log' = Append(log, "loader_invoked")
    /\ pc' = "load"
    /\ last' = NoCall
    /\ InitFrame
    /\ UNCHANGED <<flash_size, sram_size, flash, sram, nvic, system_clock_scale>>

\* line 69: armv7m_load_kernel(ARM_CPU(first_cpu), ms->kernel_filename, flash_size)
init_load_kernel ==
    /\ pc = "load"
    /\ loader' = [invoked |-> TRUE, mem_size |-> flash_size]
    /\ log' = Append(log, "loader_invoked")
    /\ pc' = "done"
    /\ last' = NoCall
    /\ InitFrame
    /\ UNCHANGED <<flash_size, sram_size, flash, sram, nvic, system_clock_scale>>

virt_cortex_m_init ==
    \/ init_locals
    \/ init_flash_rom
    \/ init_flash_map
    \/ init_sram_ram
    \/ init_sram_map
    \/ init_nvic_new
    \/ init_nvic_props
    \/ init_nvic_link
    \/ init_realize_ok
    \/ init_realize_fail
    \/ init_clock_scale
    \/ init_load_kernel

Next ==
    \/ SetProperty
    \/ GetProperty
    \/ virt_cortex_m_init

Spec == Init /\ [][Next]_vars

\* ------------------------------------------------------------------------
\* Properties
\* ------------------------------------------------------------------------

\* an int64_t greater than zero
Positive(x) == ~IsNeg(x) /\ ~IsZero(x)

InLog(e) == \E i \in 1..Len(log) : log[i] = e

\* virt_cortex_m_init has just returned from line 69: no accessor has run
\* since, so m still holds the parameters the run used
JustAssembled == pc = "done" /\ last = NoCall

\* the mathematical 1_000_000_000 / (f * 1_000_000) for a natural f
ExactScale(f) ==
    LET p == MulNat(MulNat(f, 1000), 1000)
    IN  IF Fits31(p) /\ ToNat(p) <= NANOSECONDS_PER_SECOND
        THEN NANOSECONDS_PER_SECOND \div ToNat(p)
        ELSE 0

\* [base, base + size) of two regions meet (sizes as unsigned 64-bit values)
Overlap(r1, r2) ==
    /\ ~IsZero(r1.size)
    /\ ~IsZero(r2.size)
    /\ LtNat(Widen(r1.base, 5), AddNat(r2.base, r2.size))
    /\ LtNat(Widen(r2.base, 5), AddNat(r1.base, r1.size))

\* C1: for every flashSizeKb > 0, when init has run the flash region is mapped
\* at address 0 and the size handed to memory_region_init_rom is
\* flashSizeKb * 1024.
C1_FlashSizeExact ==
    (JustAssembled /\ Positive(m.flash_size_kb)) =>
        /\ flash.state = "mapped"
        /\ flash.base = I64(0)
        /\ Widen(flash.size, 5) = MulNat(m.flash_size_kb, 1024)

\* C2: for every freqMhz > 0, after a successful assembly system_clock_scale
\* is the integer quotient 1_000_000_000 / (freqMhz * 1_000_000).
C2_ClockScaleExact ==
    (JustAssembled /\ Positive(m.freq_mhz)) =>
        system_clock_scale = ExactScale(m.freq_mhz)

\* C3: once realization of the interrupt controller has failed, the clock
\* scale is never written and the boot loader is never invoked.
C3_RealizeFailureStops ==
    InLog("nvic_realize_failed") =>
        /\ ~InLog("clock_published")
        /\ system_clock_scale = 0
        /\ ~loader.invoked
        /\ ~InLog("loader_invoked")
        /\ pc \in {"exited", "returned"}

C3_Witness ==
    /\ InLog("nvic_realize_failed")
    /\ pc = "returned"
    /\ last.op = "set"

\* the visible steps of a run, in source order
StepOrder ==
    <<"flash_created", "flash_mapped", "sram_created", "sram_mapped",
      "nvic_created", "nvic_configured", "nvic_linked", "nvic_realized",
      "clock_published", "loader_invoked">>

\* C4: the visible steps of init happen in the fixed source order; both
\* regions are mapped when the controller is linked and realized, and the
\* clock scale is published when the boot loader is invoked.
C4_FixedOrder ==
    /\ Len(log) <= Len(StepOrder)
    /\ \A i \in 1..Len(log) :
          \/ log[i] = StepOrder[i]
          \/ i = 8 /\ i = Len(log) /\ log[i] = "nvic_realize_failed"
    /\ (sram.state # "none") => flash.state = "mapped"
    /\ nvic.created => (flash.state = "mapped" /\ sram.state = "mapped")
    /\ (nvic.memory # "" \/ nvic.realized) =>
          /\ flash.state = "mapped"
          /\ sram.state = "mapped"
          /\ nvic.bitband
    /\ nvic.realized => nvic.memory = "system_memory"
    /\ InLog("clock_published") => nvic.realized
    /\ loader.invoked => InLog("clock_published")

C4_Witness == pc = "done" /\ log = StepOrder /\ loader.invoked

\* C5: a get that directly follows a set of the same property returns the
\* value that was set, and no get changes a stored parameter.
C5_RoundTrip ==
    [][ /\ (last.op = "set" /\ last'.op = "get" /\ last'.name = last.name)
            => last'.val = last.val
        /\ (last'.op = "get") => m' = m ]_vars

C5_Witness ==
    /\ last = [op |-> "get", name |-> "freq_mhz", val |-> <<1, 0, 0, 1024>>]
    /\ m.freq_mhz = <<1, 0, 0, 1024>>
    /\ m.num_irq = I64(32)
    /\ m.flash_size_kb = I64(64)

\* C6: before any set accessor has run the parameters are 1024 KB, 50 MHz and
\* 64 lines; assembling such an instance with 65536 bytes of RAM gives flash
\* [0, 1048576), RAM [0x20000000, 0x20010000) and clock scale 20.
C6_Defaults ==
    ~overridden =>
        /\ m.flash_size_kb = I64(1024)
        /\ m.freq_mhz = I64(50)
        /\ m.num_irq = I64(64)
        /\ (pc = "done" /\ ms.ram_size = I64(65536)) =>
              /\ flash.state = "mapped"
              /\ flash.base = I64(0)
              /\ flash.size = I64(1048576)
              /\ sram.state = "mapped"
              /\ sram.base = I64(536870912)
              /\ AddNat(sram.base, sram.size) = Widen(I64(536936448), 5)
              /\ system_clock_scale = 20

C6_Witness ==
    /\ ~overridden
    /\ pc = "done"
    /\ ms.ram_size = I64(65536)
    /\ loader.invoked

\* C7: after a successful assembly with flashSizeKb > 0 the flash region and
\* the RAM region do not overlap.
C7_NoOverlap ==
    (JustAssembled /\ Positive(m.flash_size_kb)) => ~Overlap(flash, sram)

\* C8: the RAM region is mapped at 0x20000000 whatever the flash size, and the
\* size handed to memory_region_init_ram is the requested ram_size.
C8_RamSizeExact ==
    JustAssembled =>
        /\ sram.state = "mapped"
        /\ sram.base = I64(SRAM_BASE)
        /\ sram.size = ms.ram_size

\* C9: when the interrupt controller is about to be realized it is configured
\* with numIrq lines, the requested CPU variant, bit-banding enabled and the
\* global address space as its memory link.
C9_NvicConfigured ==
    (pc = "realize") =>
        /\ nvic.created
        /\ nvic.num_irq = m.num_irq
        /\ nvic.cpu_type = ms.cpu_type
        /\ nvic.bitband
        /\ nvic.memory = "system_memory"
        /\ ~nvic.realized

\* C10: once assembly has completed, a set accessor changes no derived
\* artefact: regions, controller, clock scale and loader call stay as they
\* are and the machine stays assembled.
C10_SetAfterAssemblyInert ==
    [][ (pc = "done" /\ last'.op = "set") =>
            /\ pc' = "done"
            /\ flash' = flash
            /\ sram' = sram
            /\ nvic' = nvic
            /\ system_clock_scale' = system_clock_scale
            /\ loader' = loader
            /\ log' = log ]_vars

C10_Witness ==
    /\ pc = "done"
    /\ last.op = "set"
    /\ last.name = "freq_mhz"
    /\ m.freq_mhz = I64(1)
    /\ system_clock_scale = 20

====
